---- MODULE Spec2Model ----
(***************************************************************************)
(* Trajectory analysis tools: AnalyseAll.py (unwrap_deg, load_and_process, *)
(* discrete_frechet, main), PlotAll.py (unwrap_deg, load_xy) and           *)
(* GenerateData.py (parse_log).                                            *)
(*                                                                         *)
(* Numbers are modelled by integers.  Every sample value used below is an  *)
(* integer, and the point sets are chosen so that every Euclidean norm the *)
(* code computes is an integer too (3-4-5 triangles), so the float         *)
(* arithmetic of the code is exact on the modelled inputs.                 *)
(***************************************************************************)
EXTENDS Integers, Sequences, FiniteSets, TLC

VARIABLES
    \* discrete_frechet
    P, Q,          \* the two point sequences (0-based in the code, 1-based here)
    ca,            \* the coupling table, -1 = not yet filled
    stack,         \* call frames of the nested function c(i, j)
    writes,        \* how many times each cell of ca has been assigned
    result,        \* value returned by discrete_frechet
    fpc,           \* "idle" | "run" | "done"
    dPQ, dQP,      \* values of discrete_frechet(P, Q) and discrete_frechet(Q, P)
    steps, hits,   \* bookkeeping: steps taken by c, requests served from ca
    \* unwrap_deg
    angle_list,    \* the argument
    unwrapped,     \* the list being built
    offset,        \* running multiple of 360
    uk,            \* number of input samples consumed
    upc,           \* "idle" | "start" | "loop" | "done"
    \* load_and_process
    rows,          \* records of the file read so far
    xs, ys,        \* the two lists collected by the reading loop
    lres,          \* outcome of load_and_process
    lpc,           \* "idle" | "read" | "done"
    \* main of AnalyseAll.py
    human_files,   \* the files of the first glob, each a sequence of records
    auto_files,    \* the files of the second glob
    K,             \* args.clusters
    labels, trajs, \* the two lists filled by the loading loops
    fi,            \* position in the loading loop that is running
    N,             \* len(trajs), -1 before line 122
    D,             \* the distance matrix, D[i][j] with 0-based indices
    pi, pj,        \* the pair loop's i and j
    evaluated,     \* the pairs discrete_frechet has been called on, in order
    clusters,      \* the flat assignment, item index -> cluster id
    sil,           \* "unset" | "number" | "undefined"
    cid,           \* c_id of the overlay loop
    out,           \* what has been printed
    exc,           \* the exception that ended the run, "" if none
    mpc,           \* position in main
    \* parse_log
    lines,         \* the lines of the log read so far
    current_csv,   \* name of the CSV rows go to, NoCsv before the first marker
    fs,            \* the directory: CSV name -> rows of the file, or Absent
    fs0,           \* the directory as parse_log found it
    gpc            \* "idle" | "lines"

frechetVars == <<P, Q, ca, stack, writes, result, fpc, dPQ, dQP, steps, hits>>

unwrapVars == <<angle_list, unwrapped, offset, uk, upc>>

loadVars == <<rows, xs, ys, lres, lpc>>

mainVars == <<human_files, auto_files, K, labels, trajs, fi, N, D, pi, pj,
              evaluated, clusters, sil, cid, out, exc, mpc>>

logVars == <<lines, current_csv, fs, fs0, gpc>>

vars == <<frechetVars, unwrapVars, loadVars, mainVars, logVars>>

\* Everything but the variables of one function.
notFrechet == <<unwrapVars, loadVars, mainVars, logVars>>

notUnwrap == <<frechetVars, loadVars, mainVars, logVars>>

notLoad == <<frechetVars, unwrapVars, mainVars, logVars>>

notMain == <<frechetVars, unwrapVars, loadVars, logVars>>

notLog == <<frechetVars, unwrapVars, loadVars, mainVars>>

\* The state of a function that is not running.
FrechetIdle ==
    /\ P = <<>> /\ Q = <<>>
    /\ ca = <<>> /\ stack = <<>> /\ writes = <<>>
    /\ result = -1 /\ fpc = "idle" /\ dPQ = -1 /\ dQP = -1
    /\ steps = 0 /\ hits = 0

UnwrapIdle ==
    /\ angle_list = <<>> /\ unwrapped = <<>> /\ offset = 0 /\ uk = 0
    /\ upc = "idle"

LoadIdle ==
    /\ rows = <<>> /\ xs = <<>> /\ ys = <<>>
    /\ lres = [kind |-> "pending", pts |-> <<>>] /\ lpc = "idle"

MainIdle ==
    /\ human_files = <<>> /\ auto_files = <<>> /\ K = 0
    /\ labels = <<>> /\ trajs = <<>> /\ fi = 0 /\ N = -1
    /\ D = <<>> /\ pi = 0 /\ pj = 0 /\ evaluated = <<>>
    /\ clusters = <<>> /\ sil = "unset" /\ cid = 0 /\ out = <<>>
    /\ exc = "" /\ mpc = "idle"

LogIdle ==
    /\ lines = <<>> /\ current_csv = <<>> /\ fs = <<>> /\ fs0 = <<>>
    /\ gpc = "idle"

----------------------------------------------------------------------------
(* Generic helpers *)

Max(a, b) == IF a >= b THEN a ELSE b

Min(a, b) == IF a <= b THEN a ELSE b

Abs(a) == IF a < 0 THEN -a ELSE a

SeqsUpTo(S, lo, hi) == UNION {[1..n -> S] : n \in lo..hi}

----------------------------------------------------------------------------
(* unwrap_deg, AnalyseAll.py 32-44 (PlotAll.py 33-46 is the same function) *)

\* Longest angle sequence handed to unwrap_deg.
MaxAngles == 4

\* Wrapped angle samples, in degrees, within [-180, 180].
Angles == {-180, -170, -10, 0, 10, 170, 180}

\* Variant of NewOffset with the two corrections swapped.
NewOffsetSwapped(diff, off) ==
    IF diff > 180 THEN off + 360
    ELSE IF diff < -180 THEN off - 360
    ELSE off

\* Lines 39-42: the offset after looking at diff.
NewOffset(diff, off) ==
    IF diff > 180 THEN off - 360
    ELSE IF diff < -180 THEN off + 360
    ELSE off

\* One iteration of the loop, lines 38-43, on the list built so far (un),
\* the running offset and the current sample.
UnwrapStep(un, off, curr) ==
    LET diff == curr + off - un[Len(un)]
        off2 == NewOffset(diff, off)
    IN  [unwrapped |-> Append(un, curr + off2), offset |-> off2]

\* The loop of lines 37-43 from sample k+1 on.
RECURSIVE UnwrapFrom(_, _, _, _)
UnwrapFrom(list, k, un, off) ==
    IF k >= Len(list) THEN un
    ELSE LET st == UnwrapStep(un, off, list[k + 1])
         IN  UnwrapFrom(list, k + 1, st.unwrapped, st.offset)

\* unwrap_deg(angle_list) by value.
unwrap_deg(list) ==
    IF list = <<>> THEN <<>> ELSE UnwrapFrom(list, 1, <<list[1]>>, 0)

UnwrapInit ==
    /\ angle_list \in SeqsUpTo(Angles, 0, MaxAngles)
    /\ unwrapped = <<>> /\ offset = 0 /\ uk = 0
    /\ upc = "start"
    /\ FrechetIdle /\ LoadIdle /\ MainIdle /\ LogIdle

\* Lines 33-34: an empty list is returned as an empty list.
UEmpty ==
    /\ upc = "start"
    /\ angle_list = <<>>
    /\ upc' = "done"
    /\ UNCHANGED <<angle_list, unwrapped, offset, uk>>
    /\ UNCHANGED notUnwrap

\* Lines 35-36.
UStart ==
    /\ upc = "start"
    /\ angle_list # <<>>
    /\ unwrapped' = <<angle_list[1]>>
    /\ offset' = 0
    /\ uk' = 1
    /\ upc' = "loop"
    /\ UNCHANGED angle_list
    /\ UNCHANGED notUnwrap

\* Lines 37-43: one iteration.
UStep ==
    /\ upc = "loop"
    /\ uk < Len(angle_list)
    /\ LET st == UnwrapStep(unwrapped, offset, angle_list[uk + 1])
       IN  /\ unwrapped' = st.unwrapped
           /\ offset' = st.offset
    /\ uk' = uk + 1
    /\ UNCHANGED <<angle_list, upc>>
    /\ UNCHANGED notUnwrap

\* Line 44.
UReturn ==
    /\ upc = "loop"
    /\ uk = Len(angle_list)
    /\ upc' = "done"
    /\ UNCHANGED <<angle_list, unwrapped, offset, uk>>
    /\ UNCHANGED notUnwrap

UnwrapNext == UEmpty \/ UStart \/ UStep \/ UReturn

UnwrapSpec == UnwrapInit /\ [][UnwrapNext]_vars

\* C2: for samples within [-180, 180] the list unwrap_deg returns has the
\* length of its argument, and no two consecutive returned values differ by
\* more than 180 in absolute value (also true of the part built so far).
C2_UnwrapNoJump ==
    /\ \A k \in 1..(Len(unwrapped) - 1) :
           Abs(unwrapped[k + 1] - unwrapped[k]) <= 180
    /\ upc = "done" => Len(unwrapped) = Len(angle_list)

\* C2 witness: a returned list of four samples with two corrections, one of
\* which carried the values outside [-180, 180].
C2_Witness ==
    /\ upc = "done" /\ Len(angle_list) = 4
    /\ offset # 0
    /\ \E k \in 1..4 : Abs(unwrapped[k]) > 180
    /\ \E k \in 1..3 : Abs(angle_list[k + 1] - angle_list[k]) > 180
    /\ \E k \in 2..4 : unwrapped[k] - angle_list[k] # offset

----------------------------------------------------------------------------
(* load_and_process, AnalyseAll.py 47-72 *)

\* Most records of one file.
MaxRows == 4

\* A CSV field as csv.DictReader hands it over: text that float() accepts
\* ("num", with its value), text that float() rejects with ValueError
\* ("text"), or None for a field the record is too short to hold ("none",
\* float(None) raises TypeError).
Num(v) == [kind |-> "num", v |-> v]

NotANumber == [kind |-> "text", v |-> 0]

MissingField == [kind |-> "none", v |-> 0]

XFields == {Num(0), Num(3), Num(6), NotANumber}

YFields == {Num(-170), Num(170), NotANumber, MissingField}

Rows == [x : XFields, y : YFields]

\* float(field) returns a number.
Numeric(f) == f.kind = "num"

\* Lines 52-56: the body of the reading loop.  The bare except catches the
\* failure of either float(); an x appended at line 53 stays in xs when
\* line 54 raises.
AppendRow(xl, yl, row) ==
    IF ~Numeric(row.x) THEN [xs |-> xl, ys |-> yl]
    ELSE IF ~Numeric(row.y) THEN [xs |-> Append(xl, row.x.v), ys |-> yl]
    ELSE [xs |-> Append(xl, row.x.v), ys |-> Append(yl, row.y.v)]

\* Lines 48-56 on a whole file.
RECURSIVE ReadAll(_)
ReadAll(rs) ==
    IF rs = <<>> THEN [xs |-> <<>>, ys |-> <<>>]
    ELSE LET r == ReadAll(SubSeq(rs, 1, Len(rs) - 1))
         IN  AppendRow(r.xs, r.ys, rs[Len(rs)])

\* Lines 64-67: negate an axis whose final delta is negative.
Flip(d) == IF d[Len(d)] < 0 THEN [k \in 1..Len(d) |-> -d[k]] ELSE d

\* Variant of Keep that is content with one non-negative coordinate.
KeepEither(p) == p[1] >= 0 \/ p[2] >= 0

\* Line 69: the filter.
Keep(p) == p[1] >= 0 /\ p[2] >= 0

None == [kind |-> "None", pts |-> <<>>]

\* The exception of line 60 when ys is empty.
IndexError == [kind |-> "IndexError", pts |-> <<>>]

\* Lines 57-72 on the two lists the reading loop collected.  zip stops at
\* the shorter list.
Process(xl, yl) ==
    IF Len(xl) < 2 THEN None
    ELSE IF yl = <<>> THEN IndexError
    ELSE LET un == unwrap_deg(yl)
             dx == Flip([k \in 1..Len(xl) |-> xl[k] - xl[1]])
             dy == Flip([k \in 1..Len(un) |-> un[k] - un[1]])
             zipped == [k \in 1..Min(Len(dx), Len(dy)) |-> <<dx[k], dy[k]>>]
             pts == SelectSeq(zipped, Keep)
         IN  IF Len(pts) < 2 THEN None
             ELSE [kind |-> "traj", pts |-> pts]

\* load_and_process(path) by value, on the records of the file.
load_and_process(rs) ==
    LET r == ReadAll(rs) IN Process(r.xs, r.ys)

LoadInit ==
    /\ rows = <<>> /\ xs = <<>> /\ ys = <<>>
    /\ lres = [kind |-> "pending", pts |-> <<>>]
    /\ lpc = "read"
    /\ FrechetIdle /\ UnwrapIdle /\ MainIdle /\ LogIdle

\* Lines 51-56: the next record of the file is read.
ReadRow ==
    /\ lpc = "read"
    /\ Len(rows) < MaxRows
    /\ \E row \in Rows :
           /\ rows' = Append(rows, row)
           /\ LET r == AppendRow(xs, ys, row)
              IN  xs' = r.xs /\ ys' = r.ys
    /\ UNCHANGED <<lres, lpc>>
    /\ UNCHANGED notLoad

\* Lines 57-72: the file is exhausted and the lists are processed.
EndOfFile ==
    /\ lpc = "read"
    /\ lres' = Process(xs, ys)
    /\ lpc' = "done"
    /\ UNCHANGED <<rows, xs, ys>>
    /\ UNCHANGED notLoad

LoadNext == ReadRow \/ EndOfFile

LoadSpec == LoadInit /\ [][LoadNext]_vars

\* C3: every trajectory load_and_process returns has at least 2 points,
\* starts at (0, 0) and has no negative coordinate.
C3_TrajectoryInvariant ==
    (lpc = "done" /\ lres.kind = "traj") =>
        /\ Len(lres.pts) >= 2
        /\ lres.pts[1] = <<0, 0>>
        /\ \A k \in 1..Len(lres.pts) :
               lres.pts[k][1] >= 0 /\ lres.pts[k][2] >= 0

\* C3 witness: a returned trajectory whose x axis was flipped, whose angles
\* were unwrapped across the boundary and from which a point was dropped.
C3_Witness ==
    /\ lpc = "done" /\ lres.kind = "traj"
    /\ Len(xs) = Len(ys)
    /\ Len(lres.pts) < Len(xs)
    /\ xs[Len(xs)] < xs[1]
    /\ unwrap_deg(ys) # ys

\* A record both of whose fields float() accepts.
Usable(row) == Numeric(row.x) /\ Numeric(row.y)

\* C6: a record whose x or y field is missing or non-numeric contributes
\* nothing: after any sequence of records, xs and ys hold the x and the y of
\* the usable records, in order (so they have the same length and the k-th x
\* and the k-th y come from the same record).
C6_SkippedAsAWhole ==
    LET good == SelectSeq(rows, Usable)
    IN  /\ xs = [k \in 1..Len(good) |-> good[k].x.v]
        /\ ys = [k \in 1..Len(good) |-> good[k].y.v]

----------------------------------------------------------------------------
(* discrete_frechet, AnalyseAll.py 75-91 *)

\* Longest point sequence handed to discrete_frechet.
MaxPts == 3

\* Sample points; all pairwise Euclidean distances are integers (0, 3, 4, 5).
Points == {<<0, 0>>, <<3, 0>>, <<0, 4>>}

\* Variant of norm that drops the second coordinate.
normFirstAxis(p, q) == Abs(p[1] - q[1])

\* np.linalg.norm(p - q): the Euclidean length of the difference vector.
\* The CHOOSE is the exact square root; it exists for all modelled points.
norm(p, q) ==
    LET s == (p[1] - q[1]) * (p[1] - q[1]) + (p[2] - q[2]) * (p[2] - q[2])
    IN  CHOOSE r \in 0..(Abs(p[1] - q[1]) + Abs(p[2] - q[2])) : r * r = s

\* Variant of Filled that takes 0 for "not yet filled".
FilledPositive(v) == v > 0

\* The memo test of line 79: ca[i, j] > -1.
Filled(v) == v > -1

\* The recursive calls c(i, j) makes, in evaluation order (lines 82-89),
\* with 0-based indices as in the code.
Children(i, j) ==
    IF i = 0 /\ j = 0 THEN <<>>
    ELSE IF i > 0 /\ j = 0 THEN << <<i - 1, 0>> >>
    ELSE IF i = 0 /\ j > 0 THEN << <<0, j - 1>> >>
    ELSE << <<i - 1, j>>, <<i, j - 1>>, <<i - 1, j - 1>> >>

\* Variant of CellValue whose first-column branch forgets c(i-1, 0).
CellValueNoColumn(i, j, vals, d) ==
    IF i = 0 /\ j = 0 THEN d
    ELSE IF i > 0 /\ j = 0 THEN d
    ELSE IF i = 0 /\ j > 0 THEN Max(vals[1], d)
    ELSE Max(Min(Min(vals[1], vals[2]), vals[3]), d)

\* The value assigned to ca[i, j] from the results of the recursive calls
\* (vals, in the order of Children) and d (lines 82-89).
CellValue(i, j, vals, d) ==
    IF i = 0 /\ j = 0 THEN d
    ELSE IF i > 0 /\ j = 0 THEN Max(vals[1], d)
    ELSE IF i = 0 /\ j > 0 THEN Max(vals[1], d)
    ELSE Max(Min(Min(vals[1], vals[2]), vals[3]), d)

\* c(i, j) by value: the memo only avoids recomputation, so the value is the
\* one the four branches give.
RECURSIVE c(_, _, _, _)
c(p, q, i, j) ==
    LET ch == Children(i, j)
        vals == [k \in 1..Len(ch) |-> c(p, q, ch[k][1], ch[k][2])]
    IN  CellValue(i, j, vals, norm(p[i + 1], q[j + 1]))

\* discrete_frechet(P, Q) by value: c(n-1, m-1).
discrete_frechet(p, q) == c(p, q, Len(p) - 1, Len(q) - 1)

\* ---- discrete_frechet evaluated as a function (one step) ----

PureInit ==
    /\ P \in SeqsUpTo(Points, 1, MaxPts)
    /\ Q \in SeqsUpTo(Points, 1, MaxPts)
    /\ ca = <<>> /\ stack = <<>> /\ writes = <<>>
    /\ result = -1 /\ fpc = "idle" /\ dPQ = -1 /\ dQP = -1
    /\ steps = 0 /\ hits = 0
    /\ UnwrapIdle /\ LoadIdle /\ MainIdle /\ LogIdle

\* A caller evaluates discrete_frechet on the pair in both orders.
Eval ==
    /\ fpc = "idle"
    /\ dPQ' = discrete_frechet(P, Q)
    /\ dQP' = discrete_frechet(Q, P)
    /\ fpc' = "done"
    /\ UNCHANGED <<P, Q, ca, stack, writes, result, steps, hits>>
    /\ UNCHANGED notFrechet

PureNext == Eval

PureSpec == PureInit /\ [][PureNext]_vars

\* ---- discrete_frechet step by step: the nested function c and its memo ----

Cells == (0..(Len(P) - 1)) \X (0..(Len(Q) - 1))

Frame(i, j) == [i |-> i, j |-> j, entered |-> FALSE, vals |-> <<>>]

\* The points Q is drawn from in the step-by-step runs (a subset of Points,
\* to keep the number of runs small).
PointsQ == {<<0, 0>>, <<3, 0>>}

\* Lines 76-77 and the outer call of line 91.
MachInit ==
    /\ P \in SeqsUpTo(Points, 1, MaxPts)
    /\ Q \in SeqsUpTo(PointsQ, 1, MaxPts)
    /\ ca = [cell \in (0..(Len(P) - 1)) \X (0..(Len(Q) - 1)) |-> -1]
    /\ writes = [cell \in (0..(Len(P) - 1)) \X (0..(Len(Q) - 1)) |-> 0]
    /\ stack = <<Frame(Len(P) - 1, Len(Q) - 1)>>
    /\ result = -1 /\ fpc = "run" /\ dPQ = -1 /\ dQP = -1
    /\ steps = 0 /\ hits = 0
    /\ UnwrapIdle /\ LoadIdle /\ MainIdle /\ LogIdle

Top == stack[Len(stack)]

Rest == SubSeq(stack, 1, Len(stack) - 1)

\* A call returns v: to the caller c(i, j) waiting for it, or (line 91) out
\* of discrete_frechet.
Deliver(v) ==
    IF Len(stack) = 1
    THEN /\ stack' = <<>>
         /\ result' = v
         /\ fpc' = "done"
    ELSE /\ stack' = [Rest EXCEPT ![Len(stack) - 1].vals = Append(@, v)]
         /\ UNCHANGED <<result, fpc>>

\* Lines 79-80: the cell is filled, return the stored value.
FHit ==
    /\ fpc = "run" /\ stack # <<>>
    /\ ~Top.entered
    /\ Filled(ca[<<Top.i, Top.j>>])
    /\ Deliver(ca[<<Top.i, Top.j>>])
    /\ hits' = hits + 1
    /\ steps' = steps + 1
    /\ UNCHANGED <<P, Q, ca, writes, dPQ, dQP>>
    /\ UNCHANGED notFrechet

\* Line 81: the cell is not filled, the body is entered.
FMiss ==
    /\ fpc = "run" /\ stack # <<>>
    /\ ~Top.entered
    /\ ~Filled(ca[<<Top.i, Top.j>>])
    /\ stack' = [stack EXCEPT ![Len(stack)].entered = TRUE]
    /\ steps' = steps + 1
    /\ UNCHANGED <<P, Q, ca, writes, result, fpc, dPQ, dQP, hits>>
    /\ UNCHANGED notFrechet

\* Lines 85, 87, 89: the next recursive call of the branch is made.
FCall ==
    /\ fpc = "run" /\ stack # <<>>
    /\ Top.entered
    /\ Len(Top.vals) < Len(Children(Top.i, Top.j))
    /\ LET ch == Children(Top.i, Top.j)[Len(Top.vals) + 1]
       IN  stack' = Append(stack, Frame(ch[1], ch[2]))
    /\ steps' = steps + 1
    /\ UNCHANGED <<P, Q, ca, writes, result, fpc, dPQ, dQP, hits>>
    /\ UNCHANGED notFrechet

\* Lines 83-90: every recursive call has returned; the cell is assigned and
\* its value returned.
FStore ==
    /\ fpc = "run" /\ stack # <<>>
    /\ Top.entered
    /\ Len(Top.vals) = Len(Children(Top.i, Top.j))
    /\ LET v == CellValue(Top.i, Top.j, Top.vals,
                          norm(P[Top.i + 1], Q[Top.j + 1]))
       IN  /\ ca' = [ca EXCEPT ![<<Top.i, Top.j>>] = v]
           /\ Deliver(v)
    /\ writes' = [writes EXCEPT ![<<Top.i, Top.j>>] = @ + 1]
    /\ steps' = steps + 1
    /\ UNCHANGED <<P, Q, dPQ, dQP, hits>>
    /\ UNCHANGED notFrechet

MachNext == FHit \/ FMiss \/ FCall \/ FStore

MachSpec == MachInit /\ [][MachNext]_vars

----------------------------------------------------------------------------
(* Properties of discrete_frechet *)

\* A point sequence with every run of equal consecutive points merged to one.
RECURSIVE MergeRepeats(_)
MergeRepeats(s) ==
    IF Len(s) <= 1 THEN s
    ELSE LET r == MergeRepeats(SubSeq(s, 1, Len(s) - 1))
         IN  IF s[Len(s)] = s[Len(s) - 1] THEN r ELSE Append(r, s[Len(s)])

\* C1 as stated: discrete_frechet(P, P) = 0, and discrete_frechet(P, Q) = 0
\* only if P and Q have the same length and the same point at every index.
C1_ZeroIffIdentical ==
    fpc = "done" =>
        /\ (P = Q => dPQ = 0)
        /\ (dPQ = 0 => P = Q)

\* C1 amended: discrete_frechet(P, P) = 0 for every P, and
\* discrete_frechet(P, Q) = 0 exactly when P and Q are the same sequence once
\* consecutive repeated points are merged.
C1_ZeroIffSameUpToRepeats ==
    fpc = "done" =>
        /\ (P = Q => dPQ = 0)
        /\ (dPQ = 0 <=> MergeRepeats(P) = MergeRepeats(Q))

\* C1 witness: two sequences of different length at distance 0.
C1_Witness ==
    fpc = "done" /\ dPQ = 0 /\ Len(P) # Len(Q) /\ Len(MergeRepeats(P)) >= 2

\* C5: discrete_frechet(P, Q) = discrete_frechet(Q, P) for all non-empty P and
\* Q, of equal or different lengths.
C5_Symmetric == fpc = "done" => dPQ = dQP

\* C5 witness: sequences of different lengths at a non-zero distance.
C5_Witness == fpc = "done" /\ Len(P) # Len(Q) /\ dPQ > 0 /\ P[1] # Q[1]

\* The recurrence of the coupling table as the specification states it.
RECURSIVE RecurrenceCa(_, _, _, _)
RecurrenceCa(p, q, i, j) ==
    LET d == norm(p[i + 1], q[j + 1])
    IN  IF i = 0 /\ j = 0 THEN d
        ELSE IF j = 0 THEN Max(RecurrenceCa(p, q, i - 1, 0), d)
        ELSE IF i = 0 THEN Max(RecurrenceCa(p, q, 0, j - 1), d)
        ELSE Max(Min(Min(RecurrenceCa(p, q, i - 1, j),
                         RecurrenceCa(p, q, i, j - 1)),
                     RecurrenceCa(p, q, i - 1, j - 1)), d)

\* C10: during discrete_frechet(P, Q) every cell of ca is written at most
\* once, every filled cell holds the value of the recurrence, the recursion
\* terminates (it is never stuck before returning and takes at most 8*n*m
\* steps), and the value returned is ca[n-1][m-1] of the recurrence.
C10_MemoisedRecurrence ==
    /\ \A cell \in Cells : writes[cell] <= 1
    /\ \A cell \in Cells :
           ca[cell] # -1 => ca[cell] = RecurrenceCa(P, Q, cell[1], cell[2])
    /\ \A cell \in Cells : ca[cell] # -1 <=> writes[cell] = 1
    /\ steps <= 8 * Len(P) * Len(Q)
    /\ fpc = "run" => ENABLED MachNext
    /\ fpc = "done" =>
           /\ result = ca[<<Len(P) - 1, Len(Q) - 1>>]
           /\ result = RecurrenceCa(P, Q, Len(P) - 1, Len(Q) - 1)

\* C10 witness: a finished call on a 3 x 3 table during which filled cells
\* were requested again and one of them holds 0.
C10_Witness ==
    /\ fpc = "done" /\ Len(P) = 3 /\ Len(Q) = 3
    /\ hits >= 4
    /\ \E cell \in Cells : ca[cell] = 0
    /\ result > 0

----------------------------------------------------------------------------
(* main, AnalyseAll.py 94-162 *)

\* Most files the two globs find together.
MaxFiles == 3

Row(x, y) == [x |-> Num(x), y |-> Num(y)]

\* Files of the directory, as sequences of records.  Their coordinates are
\* 0 or 3 on x and 0 or 4 on y, so that all norms are integers.
FileLine == <<Row(0, 0), Row(3, 0)>>

FileUp == <<Row(0, 0), Row(0, 4)>>

FileDiag == <<Row(0, 0), Row(3, 4)>>

\* One usable record.
FileOne == <<Row(0, 0)>>

\* Two records with a numeric x and a non-numeric y: no usable record.
FileBadY == <<[x |-> Num(0), y |-> NotANumber], [x |-> Num(3), y |-> NotANumber]>>

Catalogue == {FileLine, FileUp, FileDiag, FileOne, FileBadY}

\* Values of --clusters: 1, 2 and the default 5 of line 96.
ClusterCounts == {1, 2, 5}

Say(m, n) == [msg |-> m, n |-> n]

\* Lines 100-106.
MainInit ==
    /\ human_files \in SeqsUpTo(Catalogue, 0, MaxFiles)
    /\ auto_files \in SeqsUpTo(Catalogue, 0, MaxFiles - Len(human_files))
    /\ K \in ClusterCounts
    /\ labels = <<>> /\ trajs = <<>> /\ fi = 1 /\ N = -1
    /\ D = <<>> /\ pi = 0 /\ pj = 0 /\ evaluated = <<>>
    /\ clusters = <<>> /\ sil = "unset" /\ cid = 0 /\ out = <<>>
    /\ exc = "" /\ mpc = "human"
    /\ FrechetIdle /\ UnwrapIdle /\ LoadIdle /\ LogIdle

\* The body of a loading loop (lines 109-113 and 116-120) on one file:
\* an exception of load_and_process ends the run, None skips the file, a
\* trajectory is appended with its label.
LoadFile(file, prefix) ==
    LET pts == load_and_process(file)
    IN  IF pts.kind = "IndexError"
        THEN /\ exc' = "IndexError"
             /\ mpc' = "raised"
             /\ UNCHANGED <<labels, trajs, fi>>
        ELSE IF pts.kind = "None"
        THEN /\ fi' = fi + 1
             /\ UNCHANGED <<labels, trajs, exc, mpc>>
        ELSE /\ labels' = Append(labels, prefix)
             /\ trajs' = Append(trajs, pts.pts)
             /\ fi' = fi + 1
             /\ UNCHANGED <<exc, mpc>>

\* Lines 108-113: one iteration over human_files.
LoadHuman ==
    /\ mpc = "human"
    /\ fi <= Len(human_files)
    /\ LoadFile(human_files[fi], "H:")
    /\ UNCHANGED <<human_files, auto_files, K, N, D, pi, pj, evaluated,
                   clusters, sil, cid, out>>
    /\ UNCHANGED notMain

\* Line 108 exhausted, line 115 begins.
HumanDone ==
    /\ mpc = "human"
    /\ fi > Len(human_files)
    /\ fi' = 1
    /\ mpc' = "auto"
    /\ UNCHANGED <<human_files, auto_files, K, labels, trajs, N, D, pi, pj,
                   evaluated, clusters, sil, cid, out, exc>>
    /\ UNCHANGED notMain

\* Lines 115-120: one iteration over auto_files.
LoadAuto ==
    /\ mpc = "auto"
    /\ fi <= Len(auto_files)
    /\ LoadFile(auto_files[fi], "A:")
    /\ UNCHANGED <<human_files, auto_files, K, N, D, pi, pj, evaluated,
                   clusters, sil, cid, out>>
    /\ UNCHANGED notMain

\* Lines 122-126: the count is taken; with fewer than 2 trajectories the run
\* prints the diagnostic and returns, otherwise D is allocated.
CountTrajectories ==
    /\ mpc = "auto"
    /\ fi > Len(auto_files)
    /\ N' = Len(trajs)
    /\ IF Len(trajs) < 2
       THEN /\ out' = Append(out, Say("Not enough trajectories to compare.", 0))
            /\ mpc' = "returned"
            /\ UNCHANGED <<D, pi, pj>>
       ELSE /\ D' = [i \in 0..(Len(trajs) - 1) |->
                        [j \in 0..(Len(trajs) - 1) |-> 0]]
            /\ pi' = 0 /\ pj' = 1
            /\ mpc' = "pairs"
            /\ UNCHANGED out
    /\ UNCHANGED <<human_files, auto_files, K, labels, trajs, fi, evaluated,
                   clusters, sil, cid, exc>>
    /\ UNCHANGED notMain

\* Variant of SetCell that forgets the mirror cell.
SetCellUpperOnly(m, i, j, d) == [m EXCEPT ![i][j] = d]

\* Line 130: D[i, j] = D[j, i] = d.
SetCell(m, i, j, d) == [m EXCEPT ![i][j] = d, ![j][i] = d]

\* Lines 127-130: one iteration of the inner loop, and the move to the next
\* (i, j) of range(N) x range(i+1, N).
PairStep ==
    /\ mpc = "pairs"
    /\ pi < N /\ pj < N
    /\ LET d == discrete_frechet(trajs[pi + 1], trajs[pj + 1])
       IN  D' = SetCell(D, pi, pj, d)
    /\ evaluated' = Append(evaluated, <<pi, pj>>)
    /\ IF pj + 1 < N
       THEN pi' = pi /\ pj' = pj + 1
       ELSE pi' = pi + 1 /\ pj' = pi + 2
    /\ UNCHANGED <<human_files, auto_files, K, labels, trajs, fi, N,
                   clusters, sil, cid, out, exc, mpc>>
    /\ UNCHANGED notMain

\* The flat assignments fcluster(Z, t, criterion='maxclust') can return on n
\* items: cluster ids 1..k, every one of them used, for some k of at most t
\* (and at least 1).  linkage and fcluster are library code; the assignment
\* is left open within this contract.
FlatAssignments(n, t) ==
    {f \in [0..(n - 1) -> 1..n] :
        \E k \in 1..Max(1, Min(t, n)) : {f[i] : i \in 0..(n - 1)} = 1..k}

\* Lines 133-146: linkage, dendrogram, flat assignment.
Cluster ==
    /\ mpc = "pairs"
    /\ pj >= N
    /\ \E f \in FlatAssignments(N, K) : clusters' = f
    /\ out' = out \o <<Say("Dendrogram saved.", 0), Say("Cluster assignments:", 0)>>
    /\ mpc' = "validity"
    /\ UNCHANGED <<human_files, auto_files, K, labels, trajs, fi, N, D, pi,
                   pj, evaluated, sil, cid, exc>>
    /\ UNCHANGED notMain

\* Number of distinct labels of an assignment.
NLabels(cl) == Cardinality({cl[i] : i \in DOMAIN cl})

\* silhouette_score (library code) accepts 2 to n_samples - 1 labels and
\* raises ValueError for any other number.
SilhouetteDefined(cl, n) == 2 <= NLabels(cl) /\ NLabels(cl) <= n - 1

\* Lines 147-148: the score is computed and printed; main has no handler
\* for the ValueError of silhouette_score.
Validity ==
    /\ mpc = "validity"
    /\ IF SilhouetteDefined(clusters, N)
       THEN /\ sil' = "number"
            /\ out' = Append(out, Say("Silhouette score:", 0))
            /\ cid' = 1
            /\ mpc' = "plots"
            /\ UNCHANGED exc
       ELSE /\ exc' = "ValueError"
            /\ mpc' = "raised"
            /\ UNCHANGED <<sil, out, cid>>
    /\ UNCHANGED <<human_files, auto_files, K, labels, trajs, fi, N, D, pi,
                   pj, evaluated, clusters>>
    /\ UNCHANGED notMain

\* Lines 151-162: one iteration of the overlay loop; an empty cluster is
\* skipped.
PlotCluster ==
    /\ mpc = "plots"
    /\ cid <= K
    /\ IF \E i \in DOMAIN clusters : clusters[i] = cid
       THEN out' = Append(out, Say("plot saved.", cid))
       ELSE UNCHANGED out
    /\ cid' = cid + 1
    /\ UNCHANGED <<human_files, auto_files, K, labels, trajs, fi, N, D, pi,
                   pj, evaluated, clusters, sil, exc, mpc>>
    /\ UNCHANGED notMain

\* Line 151 exhausted: main returns.
PlotsDone ==
    /\ mpc = "plots"
    /\ cid > K
    /\ mpc' = "returned"
    /\ UNCHANGED <<human_files, auto_files, K, labels, trajs, fi, N, D, pi,
                   pj, evaluated, clusters, sil, cid, out, exc>>
    /\ UNCHANGED notMain

MainNext ==
    \/ LoadHuman \/ HumanDone \/ LoadAuto \/ CountTrajectories
    \/ PairStep \/ Cluster \/ Validity \/ PlotCluster \/ PlotsDone

MainSpec == MainInit /\ [][MainNext]_vars

----------------------------------------------------------------------------
(* Properties of main *)

\* D has been allocated (line 126 has run).
MatrixAllocated ==
    \/ mpc \in {"pairs", "validity", "plots"}
    \/ mpc = "returned" /\ N >= 2
    \/ exc = "ValueError"

\* C4: D is symmetric with a zero diagonal at every step of the pair loop
\* and afterwards, no pair is evaluated twice, and when the loop completes
\* every cell D[i][j], i < j, and its mirror hold
\* discrete_frechet(trajs[i], trajs[j]), every pair evaluated exactly once.
C4_DistanceMatrix ==
    MatrixAllocated =>
        /\ \A i, j \in 0..(N - 1) : D[i][j] = D[j][i]
        /\ \A i \in 0..(N - 1) : D[i][i] = 0
        /\ \A a, b \in 1..Len(evaluated) :
               a # b => evaluated[a] # evaluated[b]
        /\ (mpc = "pairs" /\ pj >= N) =>
               /\ \A i, j \in 0..(N - 1) :
                      i < j =>
                          /\ D[i][j] = discrete_frechet(trajs[i + 1], trajs[j + 1])
                          /\ D[j][i] = discrete_frechet(trajs[i + 1], trajs[j + 1])
                          /\ \E a \in 1..Len(evaluated) : evaluated[a] = <<i, j>>
               /\ \A a \in 1..Len(evaluated) :
                      evaluated[a][1] < evaluated[a][2]

\* C4 witness: the loop has finished on three trajectories at three
\* different distances.
C4_Witness ==
    /\ mpc = "pairs" /\ pj >= N /\ N = 3
    /\ D[0][1] # D[0][2] /\ D[0][1] # D[1][2] /\ D[0][2] # D[1][2]
    /\ D[2][1] > 0

\* Records of a file both of whose fields are numeric.
UsableCount(file) == Len(SelectSeq(file, Usable))

\* The trajectories of the files of a list that load_and_process accepts.
RECURSIVE Accepted(_)
Accepted(fl) ==
    IF fl = <<>> THEN <<>>
    ELSE LET r == load_and_process(fl[Len(fl)])
             before == Accepted(SubSeq(fl, 1, Len(fl) - 1))
         IN  IF r.kind = "traj" THEN Append(before, r.pts) ELSE before

\* C7: a file with fewer than 2 usable records makes load_and_process
\* return None and is left out without ending the run or disturbing the
\* other files; the matrix and the clustering are started only with at
\* least 2 trajectories, and otherwise the run stops with the diagnostic
\* before any matrix is built.
C7_InsufficientDataExcluded ==
    /\ exc # "IndexError"
    /\ N >= 0 =>
           /\ trajs = Accepted(human_files \o auto_files)
           /\ \A k \in 1..Len(human_files \o auto_files) :
                  UsableCount((human_files \o auto_files)[k]) < 2 =>
                      load_and_process((human_files \o auto_files)[k]) = None
    /\ MatrixAllocated => N >= 2
    /\ (mpc = "returned" /\ N < 2) =>
           /\ out = <<Say("Not enough trajectories to compare.", 0)>>
           /\ D = <<>> /\ evaluated = <<>> /\ clusters = <<>>

\* The validity step (lines 147-148) has been left.
ValidityLeft ==
    \/ mpc = "plots"
    \/ mpc = "returned" /\ N >= 2
    \/ exc = "ValueError"

\* The requested count or the flat assignment is degenerate.
Degenerate ==
    \/ K \notin 1..N
    \/ NLabels(clusters) = 1
    \/ NLabels(clusters) = N

\* C8: with a degenerate cluster count the validity step reports
\* "undefined" instead of a number, and the run is not ended there: the
\* assignment is delivered and the per-cluster outputs still run.
C8_UndefinedValidity ==
    (ValidityLeft /\ Degenerate) =>
        /\ sil = "undefined"
        /\ exc = ""
        /\ mpc \in {"plots", "returned"}

----------------------------------------------------------------------------
(* parse_log, GenerateData.py 24-57 *)

\* Most lines of a log.
MaxLines == 3

\* What new_pat finds in a line: the dataset type and the seed, or nothing.
NoMarker == [present |-> FALSE, dtype |-> "", seed |-> ""]

Marker(d, sd) == [present |-> TRUE, dtype |-> d, seed |-> sd]

\* Dataset types as they are written in a log.
DTypes == {"Human", " human", "Automated"}

\* Line 41: dtype.strip().lower().replace(' ', '_'), on the types above.
Normalise(d) ==
    CASE d = "Human" -> "human"
      [] d = " human" -> "human"
      [] d = "Automated" -> "automated"

\* Lines 41-42: the CSV a marker names (outdir is the same for all).
FName(m) == [type |-> Normalise(m.dtype), seed |-> m.seed]

\* current_csv = None (line 33).
NoCsv == [type |-> "", seed |-> ""]

\* A log line, by what the three patterns find in it: new_pat (marker),
\* time_pat (time) and xy_pat (xy).  The patterns are independent.
LogLines ==
    [marker : {NoMarker} \cup {Marker(d, "0.5") : d \in DTypes},
     time : BOOLEAN, xy : BOOLEAN]

CsvNames == {FName(Marker(d, "0.5")) : d \in DTypes}

Absent == [exists |-> FALSE, rows |-> <<>>]

Header == [row |-> "time,x,y", line |-> 0]

\* The row written for the n-th line of the log: its time, x and y.
DataRow(n) == [row |-> "data", line |-> n]

\* A CSV an earlier run left behind: the header and a row.
EarlierRun == [exists |-> TRUE, rows |-> <<Header, [row |-> "earlier", line |-> 0]>>]

\* Lines 45-46: open(current_csv, 'w') and the header row.
Create == [exists |-> TRUE, rows |-> <<Header>>]

\* Variant of AppendTo that opens the file with 'w'.
OverwriteWith(file, row) == [exists |-> TRUE, rows |-> <<row>>]

\* Lines 56-57: open(current_csv, 'a') and one row.
AppendTo(file, row) == [exists |-> TRUE, rows |-> Append(file.rows, row)]

\* Lines 32-33.
LogInit ==
    /\ lines = <<>>
    /\ current_csv = NoCsv
    /\ fs0 \in [CsvNames -> {Absent, EarlierRun}]
    /\ fs = fs0
    /\ gpc = "lines"
    /\ FrechetIdle /\ UnwrapIdle /\ LoadIdle /\ MainIdle

\* Lines 38-47: the line holds a dataset marker.
ReadMarker ==
    /\ gpc = "lines"
    /\ Len(lines) < MaxLines
    /\ \E l \in LogLines :
           /\ l.marker.present
           /\ lines' = Append(lines, l)
           /\ current_csv' = FName(l.marker)
           /\ fs' = IF ~fs[FName(l.marker)].exists
                    THEN [fs EXCEPT ![FName(l.marker)] = Create]
                    ELSE fs
    /\ UNCHANGED <<fs0, gpc>>
    /\ UNCHANGED notLog

\* Lines 50-57: no marker, a current CSV, and both xy_pat and time_pat
\* match.
ReadData ==
    /\ gpc = "lines"
    /\ Len(lines) < MaxLines
    /\ current_csv # NoCsv
    /\ \E l \in LogLines :
           /\ ~l.marker.present
           /\ l.xy /\ l.time
           /\ lines' = Append(lines, l)
           /\ fs' = [fs EXCEPT ![current_csv] =
                        AppendTo(@, DataRow(Len(lines) + 1))]
    /\ UNCHANGED <<current_csv, fs0, gpc>>
    /\ UNCHANGED notLog

\* Lines 50-53 otherwise: nothing is written.
ReadOther ==
    /\ gpc = "lines"
    /\ Len(lines) < MaxLines
    /\ \E l \in LogLines :
           /\ ~l.marker.present
           /\ ~(current_csv # NoCsv /\ l.xy /\ l.time)
           /\ lines' = Append(lines, l)
    /\ UNCHANGED <<current_csv, fs, fs0, gpc>>
    /\ UNCHANGED notLog

LogNext == ReadMarker \/ ReadData \/ ReadOther

LogSpec == LogInit /\ [][LogNext]_vars

\* The CSV named by the most recent marker among the first k lines.
RECURSIVE NamedBefore(_)
NamedBefore(k) ==
    IF k = 0 THEN NoCsv
    ELSE IF lines[k].marker.present THEN FName(lines[k].marker)
    ELSE NamedBefore(k - 1)

\* A line carrying both a leading time field and X/Y data.
CarriesData(l) == l.time /\ l.xy

\* The content CSV f must have after the first k lines when the lines that
\* write a row are those of the set dataLines: the content it had, then the
\* row of every such line whose most recent preceding marker names f, and
\* the header row only if a marker creates the file.
RECURSIVE Expected(_, _, _)
Expected(f, k, dataLines) ==
    IF k = 0 THEN fs0[f]
    ELSE LET prev == Expected(f, k - 1, dataLines)
             row == IF k \in dataLines /\ NamedBefore(k - 1) = f
                    THEN [exists |-> TRUE,
                          rows |-> prev.rows \o <<DataRow(k)>>]
                    ELSE prev
         IN  IF lines[k].marker.present /\ FName(lines[k].marker) = f
                /\ ~row.exists
             THEN [exists |-> TRUE, rows |-> <<Header>>]
             ELSE row

\* C9 as stated: every line carrying a time field and X/Y data is appended
\* to the CSV named by the most recent marker preceding it.
C9_EveryDataLineAppended ==
    \A f \in CsvNames :
        fs[f] = Expected(f, Len(lines),
                         {k \in 1..Len(lines) : CarriesData(lines[k])})

\* C9 amended: the lines appended are those that carry a time field and X/Y
\* data and hold no dataset marker themselves; a line holding a marker only
\* selects (and, if missing, creates with the header) its CSV.
C9_DataLinesWithoutMarkerAppended ==
    /\ current_csv = NamedBefore(Len(lines))
    /\ \A f \in CsvNames :
           fs[f] = Expected(f, Len(lines),
                            {k \in 1..Len(lines) :
                                CarriesData(lines[k]) /\ ~lines[k].marker.present})

\* C9 witness: a data line before the first marker wrote nothing, a marker
\* named a CSV of an earlier run, and the data line after it was appended to
\* that CSV, which kept its rows and got no second header.
C9_Witness ==
    /\ Len(lines) = 3
    /\ CarriesData(lines[1]) /\ ~lines[1].marker.present
    /\ lines[2].marker.present /\ lines[2].marker.dtype = " human"
    /\ fs0[current_csv] = EarlierRun
    /\ fs[current_csv].rows = Append(EarlierRun.rows, DataRow(3))
    /\ \E f \in CsvNames : f # current_csv /\ fs[f] = fs0[f]

====
